---- MODULE Spec2Model ----
(***************************************************************************)
(* A model of aioddwrt: the DdWrt client (ddwrt.py) and its SSH, Telnet    *)
(* and HTTP connections (connection.py).                                   *)
(*                                                                         *)
(* One state machine per component shares the module:                      *)
(*   SpecTracker     DdWrt.async_get_bytes_total and                       *)
(*                   DdWrt.async_get_current_transfer_rates, one caller,   *)
(*                   over a transport whose async_run_command yields a     *)
(*                   counter or a value int(data[0]) raises on;            *)
(*   SpecSsh         SshConnection.async_run_command, one caller;          *)
(*   SpecTelnet      TelnetConnection.async_run_command, one caller or two *)
(*                   concurrent callers on one connection object (asyncio  *)
(*                   tasks: a step is the code between two awaits);        *)
(*   SpecHttp        HttpConnection, one caller;                           *)
(*   SpecTransports  one client with one connection of one transport;      *)
(*   SpecQuery       DdWrt.async_get_wl, async_get_leases, async_get_arp   *)
(*                   over a shell transport, with the text parsers;        *)
(*   SpecMerge       the device directory merger of the specification.     *)
(* Time is in whole seconds.  An optional value (Python's None) is the     *)
(* empty sequence, a present value v is <<v>>.                             *)
(***************************************************************************)
EXTENDS Integers, Sequences, FiniteSets, TLC

\* ------------------------------------------------------------------ bounds
MaxTime == 62
TickSeconds == 5
MaxCallTime == 5
ByteScale == 45
MaxUnits == 2
MaxSessions == 3
MaxStreams == 3
MaxMacs == 2
MaxLines == 2
MaxGets == 3
MaxDevices == 3

\* --------------------------------------------------------- program constants
CHANGE_TIME_CACHE_DEFAULT == 5
RateFloor == 30

None == <<>>
Some(v) == <<v>>

\* The byte counters the router may report on a read of rx_bytes, of tx_bytes.
RxReadings == {k * ByteScale : k \in 0..MaxUnits}
TxReadings == {k * ByteScale : k \in 0..(MaxUnits - 1)}

VARIABLES
    \* ---- DdWrt (ddwrt.py), the traffic rate tracker
    clock,                  \* datetime.utcnow(), in seconds
    rx_latest,              \* self._rx_latest
    tx_latest,              \* self._tx_latest
    latest_transfer_check,  \* self._latest_transfer_check
    cache_time,             \* self._cache_time
    trans_cache_timer,      \* self._trans_cache_timer
    transfer_rates_cache,   \* self._transfer_rates_cache
    latest_transfer_data,   \* self._latest_transfer_data
    tpc,                    \* where the one caller is: "idle", "rx", "tx"
    op,                     \* the public operation in progress: "bytes", "rates"
    use_cache,              \* its use_cache argument
    now,                    \* its local now
    rx,                     \* the value async_get_rx returned to it
    cmds,                   \* commands issued to the transport by the call
    tret,                   \* what the last call returned (or that it raised)
    branch,                 \* the path the last call took: "bytes", "baseline", "floor",
                            \* "computed", "reset" (computed after a counter fell), "raised",
                            \* "bytes raised" (async_get_bytes_total called alone raised)
    lastRead,               \* history: the pair the last call's byte-total fetch read
    lastReadAt,             \* history: when that fetch was called, kept while it is
                            \* younger than the cache time
    lastComp,               \* history: <<now, pair read>> of the last baseline or rate
                            \* computation
    lastRates               \* history: the rate pair the last successful rates call returned

trackerVars == <<clock, rx_latest, tx_latest, latest_transfer_check, cache_time,
                 trans_cache_timer, transfer_rates_cache, latest_transfer_data,
                 tpc, op, use_cache, now, rx, cmds, tret, branch,
                 lastRead, lastReadAt, lastComp, lastRates>>

VARIABLES
    \* ---- SshConnection (connection.py), one caller
    ssh_connected,          \* self._connected
    ssh_client,             \* self._client: [state |-> "none" | "session" | "deleted", id]
    nsessions,              \* sessions asyncssh.connect has established so far
    spc,                    \* where the caller is: "idle", "connect", "run", "reconnect"
    scommand,               \* the call's command
    sretry,                 \* the call's retry argument
    issued,                 \* the commands the call has handed to a session's run()
    chanFail,               \* the call's run() ended in ChannelOpenError with retry false
    sret,                   \* what the last call handed back
    sreuse,                 \* history: the call started with is_connected true
    sfailed                 \* history: some call met a failure (of the connect or the run)

sshVars == <<ssh_connected, ssh_client, nsessions, spc, scommand, sretry, issued,
             chanFail, sret, sreuse, sfailed>>

VARIABLES
    \* ---- TelnetConnection (connection.py), concurrent callers
    callers,                \* the tasks that call async_run_command on the object
    tn_reader,              \* self._reader: a stream id, 0 for None
    tn_writer,              \* self._writer
    tn_prompt,              \* self._prompt_string: the stream it was read from, 0 for None
    tn_connected,           \* self._connected
    io_lock,                \* self._io_lock: the task holding it, or "free"
    waiters,                \* the tasks queued on the lock, first come first
    nstreams,               \* streams asyncio.open_connection has opened so far
    openStreams,            \* the streams not closed yet
    silent,                 \* the router has stopped responding
    eof,                    \* the streams whose reader has met the end of the stream
    tk                      \* per task: its position and the locals of its call

telnetVars == <<callers, tn_reader, tn_writer, tn_prompt, tn_connected, io_lock,
                waiters, nstreams, openStreams, silent, eof, tk>>

VARIABLES
    \* ---- DdWrt (ddwrt.py), the device queries of one caller
    dd_asked,               \* history: the protocol the last DdWrt(...) was called with
    dd_protocol,            \* self.protocol of the client, "none" when there is none
    wl_cmd,                 \* self._wl_cmd: "none", "wl" (_WL_CMD), "iw" (_IW_CMD)
    qpc,                    \* where the caller is: "idle", "probe", "run"
    qop,                    \* the query in progress: "wl", "leases", "arp"
    qcmds,                  \* the commands the call has issued to the transport
    qprobe,                 \* history: what the 'wl ver' probe of the call handed back
    qout,                   \* history: what the run of the query's command handed back
    qparsed,                \* history: the last use of _parse_lines, its input and result
    qret                    \* what the last call (or constructor) handed back

queryVars == <<dd_asked, dd_protocol, wl_cmd, qpc, qop, qcmds, qprobe, qout, qparsed,
               qret>>

VARIABLES
    \* ---- HttpConnection (connection.py), one caller
    h_made,                 \* an HttpConnection object exists
    h_given,                \* history: the session the caller handed to the constructor
    h_session,              \* self.session
    h_is_connected,         \* self.is_connected
    h_nsessions,            \* sessions the library has created so far
    h_closed,               \* the sessions that have been closed
    h_log,                  \* history: the requests made, their session and outcome
    h_ret                   \* what the last call (or constructor) handed back

httpVars == <<h_made, h_given, h_session, h_is_connected, h_nsessions, h_closed,
              h_log, h_ret>>

VARIABLES
    \* ---- the device directory merger (spec section 4.3)
    m_mode,                 \* the deployment mode of the scan: "router", "ap"
    m_wl,                   \* the addresses the wireless pass found
    m_arp,                  \* the mapping the ARP pass found: address -> ip
    m_leases,               \* the mapping the lease query found: address -> ip, host
    m_dir                   \* the merged directory: address -> Device

mergeVars == <<m_mode, m_wl, m_arp, m_leases, m_dir>>

vars == <<trackerVars, sshVars, telnetVars, queryVars, httpVars, mergeVars>>

\* The variables of all the components but one.
exceptTracker == <<sshVars, telnetVars, queryVars, httpVars, mergeVars>>
exceptSsh == <<trackerVars, telnetVars, queryVars, httpVars, mergeVars>>
exceptTelnet == <<trackerVars, sshVars, queryVars, httpVars, mergeVars>>
exceptQuery == <<trackerVars, sshVars, telnetVars, httpVars, mergeVars>>
exceptHttp == <<trackerVars, sshVars, telnetVars, queryVars, mergeVars>>
exceptMerge == <<trackerVars, sshVars, telnetVars, queryVars, httpVars>>

\* ---------------------------------------------------------------- tracker

\* What a call hands back: a pair, or an exception.
Returned(v) == [kind |-> "pair", val |-> v]
Raised == [kind |-> "raise", val |-> None]
NoReturn == [kind |-> "none", val |-> None]

\* DdWrt.__init__
TrackerInit ==
    /\ clock = 0
    /\ rx_latest = None
    /\ tx_latest = None
    /\ latest_transfer_check = None
    /\ cache_time = CHANGE_TIME_CACHE_DEFAULT
    /\ trans_cache_timer = None
    /\ transfer_rates_cache = None
    /\ latest_transfer_data = <<0, 0>>
    /\ tpc = "idle"
    /\ op = "none"
    /\ use_cache = FALSE
    /\ now = None
    /\ rx = None
    /\ cmds = 0
    /\ tret = NoReturn
    /\ branch = "none"
    /\ lastRead = None
    /\ lastReadAt = None
    /\ lastComp = None
    /\ lastRates = None

\* async_get_bytes_total's test for serving the cached pair.
CacheHit(uc, timer, ttl, t) ==
    /\ uc
    /\ timer # None
    /\ ttl > t - timer[1]

\* math.ceil(n / secs) for n > 0, secs > 0.
Ceil(n, secs) == IF n % secs = 0 THEN n \div secs ELSE (n \div secs) + 1

\* The byte delta since the previous reading.
DeltaNoReset(cur, prev) == cur - prev

Delta(cur, prev) == IF cur < prev THEN cur ELSE cur - prev

\* One component of the stored rate.
Rate(delta, secs) == IF delta > 0 THEN Ceil(delta, secs) ELSE 0

\* The test that the sampling floor has not passed.
BelowCacheTime(time_diff) == time_diff < CHANGE_TIME_CACHE_DEFAULT

BelowFloor(time_diff) == time_diff < RateFloor

\* The test that no baseline has been recorded.
NeedsBaseline(rxl, txl) == rxl = None \/ txl = None

\* What the first call stores and returns: the baseline of readings d taken at t.
BaselineSwapped(d, t, ltd) ==
    [check |-> Some(t), rxl |-> Some(d[2]), txl |-> Some(d[1]), ret |-> ltd]

Baseline(d, t, ltd) ==
    [check |-> Some(t), rxl |-> Some(d[1]), txl |-> Some(d[2]), ret |-> ltd]

\* The rest of async_get_current_transfer_rates once data is known; t is its now.
FinishRates(d, t) ==
    IF d = None
    THEN \* data[0] on None raises
         /\ tret' = Raised
         /\ branch' = "raised"
         /\ UNCHANGED <<rx_latest, tx_latest, latest_transfer_check,
                        latest_transfer_data, lastComp, lastRates>>
    ELSE IF NeedsBaseline(rx_latest, tx_latest)
    THEN LET b == Baseline(d, t, latest_transfer_data) IN
         /\ latest_transfer_check' = b.check
         /\ rx_latest' = b.rxl
         /\ tx_latest' = b.txl
         /\ tret' = Returned(b.ret)
         /\ branch' = "baseline"
         /\ lastComp' = Some(<<t, d>>)
         /\ lastRates' = Some(b.ret)
         /\ UNCHANGED latest_transfer_data
    ELSE LET time_diff == t - latest_transfer_check[1] IN
         IF BelowFloor(time_diff)
         THEN /\ tret' = Returned(latest_transfer_data)
              /\ branch' = "floor"
              /\ lastRates' = Some(latest_transfer_data)
              /\ UNCHANGED <<rx_latest, tx_latest, latest_transfer_check,
                             latest_transfer_data, lastComp>>
         ELSE LET rxd == Delta(d[1], rx_latest[1])
                  txd == Delta(d[2], tx_latest[1])
                  new == <<Rate(rxd, time_diff), Rate(txd, time_diff)>>
              IN /\ latest_transfer_check' = Some(t)
                 /\ rx_latest' = Some(d[1])
                 /\ tx_latest' = Some(d[2])
                 /\ latest_transfer_data' = new
                 /\ tret' = Returned(new)
                 /\ branch' = IF d[1] < rx_latest[1] \/ d[2] < tx_latest[1]
                              THEN "reset" ELSE "computed"
                 /\ lastComp' = Some(<<t, d>>)
                 /\ lastRates' = Some(new)

\* The rest of a public call once async_get_bytes_total has its value d;
\* the call's locals end with it.
Finish(o, d, t) ==
    /\ tpc' = "idle"
    /\ op' = "none"
    /\ use_cache' = FALSE
    /\ now' = None
    /\ rx' = None
    /\ IF o = "bytes"
       THEN /\ tret' = Returned(d)
            /\ branch' = "bytes"
            /\ UNCHANGED <<rx_latest, tx_latest, latest_transfer_check,
                           latest_transfer_data, lastComp, lastRates>>
       ELSE FinishRates(d, t)

\* A public call starts: async_get_bytes_total(use_cache) or
\* async_get_current_transfer_rates(use_cache), up to the first await.
Begin(o, uc) ==
    /\ tpc = "idle"
    /\ cmds' = 0
    /\ IF CacheHit(uc, trans_cache_timer, cache_time, clock)
       THEN /\ Finish(o, transfer_rates_cache, clock)
            /\ UNCHANGED lastRead
       ELSE /\ tpc' = "rx"
            /\ op' = o
            /\ use_cache' = uc
            /\ now' = Some(clock)
            /\ tret' = NoReturn
            /\ lastRead' = None
            /\ UNCHANGED <<rx, branch, rx_latest, tx_latest,
                           latest_transfer_check, latest_transfer_data,
                           lastComp, lastRates>>
    /\ UNCHANGED <<clock, cache_time, trans_cache_timer, transfer_rates_cache,
                   lastReadAt>>

\* async_get_rx: the RX command's output converts to a counter.
FetchRx(v) ==
    /\ tpc = "rx"
    /\ cmds' = cmds + 1
    /\ rx' = Some(v)
    /\ tpc' = "tx"
    /\ UNCHANGED <<clock, rx_latest, tx_latest, latest_transfer_check, cache_time,
                   trans_cache_timer, transfer_rates_cache, latest_transfer_data,
                   op, use_cache, now, tret, branch, lastRead, lastReadAt, lastComp,
                   lastRates>>

\* A tracker that stores the RX counter as soon as it is read: when the TX
\* fetch of a rates call fails, the RX baseline alone has moved.
FetchFailsKeepsRx ==
    /\ tpc \in {"rx", "tx"}
    /\ cmds' = cmds + 1
    /\ tpc' = "idle"
    /\ op' = "none"
    /\ use_cache' = FALSE
    /\ now' = None
    /\ rx' = None
    /\ tret' = Raised
    /\ branch' = IF op = "rates" THEN "raised" ELSE "bytes raised"
    /\ rx_latest' = IF op = "rates" /\ tpc = "tx" THEN rx ELSE rx_latest
    /\ UNCHANGED <<clock, tx_latest, latest_transfer_check, cache_time,
                   trans_cache_timer, transfer_rates_cache, latest_transfer_data,
                   lastRead, lastReadAt, lastComp, lastRates>>

\* async_get_rx or async_get_tx: the output is empty or not a number, and
\* int(data[0]) raises out of the public call (branch tells out of which).
FetchFails ==
    /\ tpc \in {"rx", "tx"}
    /\ cmds' = cmds + 1
    /\ tpc' = "idle"
    /\ op' = "none"
    /\ use_cache' = FALSE
    /\ now' = None
    /\ rx' = None
    /\ tret' = Raised
    /\ branch' = IF op = "rates" THEN "raised" ELSE "bytes raised"
    /\ UNCHANGED <<clock, rx_latest, tx_latest, latest_transfer_check, cache_time,
                   trans_cache_timer, transfer_rates_cache, latest_transfer_data,
                   lastRead, lastReadAt, lastComp, lastRates>>

\* async_get_tx converts, async_get_bytes_total returns (rx, tx) and the
\* public call runs to its return.
FetchTx(v) ==
    /\ tpc = "tx"
    /\ cmds' = cmds + 1
    /\ lastRead' = Some(<<rx[1], v>>)
    /\ lastReadAt' = IF clock - now[1] < cache_time THEN now ELSE None
    /\ Finish(op, <<rx[1], v>>, now[1])
    /\ UNCHANGED <<clock, cache_time, trans_cache_timer, transfer_rates_cache>>

\* Time passes; a call in progress lasts at most MaxCallTime.
Tick ==
    /\ clock + TickSeconds <= MaxTime
    /\ now # None => clock + TickSeconds - now[1] <= MaxCallTime
    /\ clock' = clock + TickSeconds
    /\ lastReadAt' = IF lastReadAt # None /\ clock' - lastReadAt[1] < cache_time
                     THEN lastReadAt ELSE None
    /\ UNCHANGED <<rx_latest, tx_latest, latest_transfer_check, cache_time,
                   trans_cache_timer, transfer_rates_cache, latest_transfer_data,
                   tpc, op, use_cache, now, rx, cmds, tret, branch,
                   lastRead, lastComp, lastRates>>

\* -------------------------------------------------------------------- SSH

Commands == {"wl ver", "arp -n", "cat /tmp/dnsmasq.leases"}

NoClient == [state |-> "none", id |-> 0]
DeletedClient == [state |-> "deleted", id |-> 0]
Session(k) == [state |-> "session", id |-> k]

\* What async_run_command hands back: the output lines of a run on session k,
\* the empty list, an un-awaited coroutine object, or an exception.
SshLines(k) == [kind |-> "lines", session |-> k]
SshEmpty == [kind |-> "empty", session |-> 0]
SshCoroutine == [kind |-> "coroutine", session |-> 0]
SshRaised == [kind |-> "raise", session |-> 0]
SshNoReturn == [kind |-> "none", session |-> 0]

\* SshConnection.__init__
SshInit ==
    /\ ssh_connected = FALSE
    /\ ssh_client = NoClient
    /\ nsessions = 0
    /\ spc = "idle"
    /\ scommand = "none"
    /\ sretry = FALSE
    /\ issued = <<>>
    /\ chanFail = FALSE
    /\ sret = SshNoReturn
    /\ sreuse = FALSE
    /\ sfailed = FALSE

\* self._client.run(command) is started on the current client.
IssueOn(client, c) == Append(issued, [cmd |-> c, session |-> client.id])

\* The call ends, handing r back.
SshReturn(r) ==
    /\ spc' = "idle"
    /\ sret' = r
    /\ scommand' = "none"
    /\ sretry' = FALSE

\* async_run_command that connects at the start of every call.
SshCallAlwaysConnects(c, r) ==
    /\ spc = "idle"
    /\ scommand' = c
    /\ sretry' = r
    /\ chanFail' = FALSE
    /\ sret' = SshNoReturn
    /\ sreuse' = ssh_connected
    /\ spc' = "connect"
    /\ issued' = <<>>
    /\ UNCHANGED <<ssh_connected, ssh_client, nsessions, sfailed>>

\* async_run_command(command, retry) is called: it awaits async_connect when
\* not connected, else the run of the command.
SshCall(c, r) ==
    /\ spc = "idle"
    /\ scommand' = c
    /\ sretry' = r
    /\ chanFail' = FALSE
    /\ sret' = SshNoReturn
    /\ sreuse' = ssh_connected
    /\ IF ~ssh_connected
       THEN /\ spc' = "connect"
            /\ issued' = <<>>
       ELSE /\ spc' = "run"
            /\ issued' = <<[cmd |-> c, session |-> ssh_client.id]>>
    /\ UNCHANGED <<ssh_connected, ssh_client, nsessions, sfailed>>

\* async_connect (awaited before the run): asyncssh.connect succeeds.
SshConnected ==
    /\ spc = "connect"
    /\ nsessions < MaxSessions
    /\ nsessions' = nsessions + 1
    /\ ssh_client' = Session(nsessions + 1)
    /\ ssh_connected' = TRUE
    /\ issued' = IssueOn(Session(nsessions + 1), scommand)
    /\ spc' = "run"
    /\ UNCHANGED <<scommand, sretry, chanFail, sret, sreuse, sfailed>>

\* asyncssh.connect raises (name resolution, authentication, protocol): the
\* exception leaves async_run_command.
SshConnectFails ==
    /\ spc \in {"connect", "reconnect"}
    /\ SshReturn(SshRaised)
    /\ sfailed' = TRUE
    /\ UNCHANGED <<ssh_connected, ssh_client, nsessions, issued, chanFail, sreuse>>

\* The run of the command ends within the 9 seconds.
SshRunOk ==
    /\ spc = "run"
    /\ ssh_connected' = TRUE
    /\ SshReturn(SshLines(ssh_client.id))
    /\ UNCHANGED <<ssh_client, nsessions, issued, chanFail, sreuse, sfailed>>

\* wait_for raises TimeoutError.
SshRunTimeout ==
    /\ spc = "run"
    /\ ssh_client' = DeletedClient
    /\ ssh_connected' = FALSE
    /\ SshReturn(SshEmpty)
    /\ sfailed' = TRUE
    /\ UNCHANGED <<nsessions, issued, chanFail, sreuse>>

\* The run raises ChannelOpenError.
SshRunChannelOpenError ==
    /\ spc = "run"
    /\ IF ~sretry
       THEN /\ spc' = "reconnect"
            /\ chanFail' = TRUE
            /\ UNCHANGED <<ssh_connected, sret, scommand, sretry>>
       ELSE /\ ssh_connected' = FALSE
            /\ SshReturn(SshEmpty)
            /\ UNCHANGED chanFail
    /\ sfailed' = TRUE
    /\ UNCHANGED <<ssh_client, nsessions, issued, sreuse>>

\* The run raises anything else (the session was lost): not caught.
SshRunRaises ==
    /\ spc = "run"
    /\ SshReturn(SshRaised)
    /\ sfailed' = TRUE
    /\ UNCHANGED <<ssh_connected, ssh_client, nsessions, issued, chanFail, sreuse>>

\* async_connect after the ChannelOpenError succeeds, and
\* "return self.async_run_command(command, retry=True)" runs: the call builds
\* the coroutine of the retry and returns it without awaiting it.
SshReconnected ==
    /\ spc = "reconnect"
    /\ nsessions < MaxSessions
    /\ nsessions' = nsessions + 1
    /\ ssh_client' = Session(nsessions + 1)
    /\ ssh_connected' = TRUE
    /\ SshReturn(SshCoroutine)
    /\ UNCHANGED <<issued, chanFail, sreuse, sfailed>>

\* ----------------------------------------------------------------- Telnet
\* The lock is used as "with (await self._io_lock)", the form asyncio accepted
\* up to Python 3.8: it acquires at once when the lock is free and nobody is
\* queued, else queues the task; release hands the lock to the first queued.

Tasks == {"a", "b"}

\* A task not in a call. ret: "none", "lines", "empty", "raise"; out: how the
\* last command read ended: "none", "ok", "lost", "timeout", "raise"; hs: how
\* the last handshake went: "none", "incomplete" (the read for "login: " met
\* the end of the stream), "timeout" (it timed out), "done".
IdleTask ==
    [pc |-> "idle", first_try |-> TRUE, tries |-> 0, own |-> 0, first |-> 0,
     io |-> 0, rp |-> 0, sent |-> 0, ret |-> "none", out |-> "none", hs |-> "none"]

\* TelnetConnection.__init__
TelnetInit ==
    /\ callers \in {{"a"}, Tasks}
    /\ tn_reader = 0
    /\ tn_writer = 0
    /\ tn_prompt = 0
    /\ tn_connected = FALSE
    /\ io_lock = "free"
    /\ waiters = <<>>
    /\ nstreams = 0
    /\ openStreams = {}
    /\ silent = FALSE
    /\ eof = {}
    /\ tk = [t \in Tasks |-> IdleTask]

\* The lock after its holder released it.
Released ==
    [holder |-> IF waiters = <<>> THEN "free" ELSE Head(waiters),
     queue |-> IF waiters = <<>> THEN <<>> ELSE Tail(waiters)]

\* self._writer.close()
Closed == openStreams \ {tn_writer}

\* The value the retry passes for first_try.
RetryFirstTryAgain == TRUE

RetryFirstTry == FALSE

\* The task holds the lock in async_run_command: it writes the command to
\* self._writer and starts reading self._reader until self._prompt_string.
CmdStarted(r, reader, prompt) ==
    [r EXCEPT !.pc = "cmd_read", !.io = reader, !.rp = prompt, !.sent = @ + 1]

\* The task returns from async_run_command: its locals end with the call.
Back(r, ret, out) ==
    [IdleTask EXCEPT !.tries = r.tries, !.sent = r.sent, !.ret = ret, !.out = out,
                     !.hs = r.hs]

\* async_run_command(command) is called by a task: it awaits
\* asyncio.open_connection inside async_connect.
TnCall(t) ==
    /\ t \in callers
    /\ tk[t].pc = "idle"
    /\ nstreams < MaxStreams
    /\ tk' = [tk EXCEPT ![t] = [IdleTask EXCEPT !.pc = "open", !.tries = 1]]
    /\ UNCHANGED <<callers, tn_reader, tn_writer, tn_prompt, tn_connected, io_lock,
                   waiters, nstreams, openStreams, silent, eof>>

\* open_connection succeeds: the object's reader and writer are replaced, and
\* the task takes the lock for the handshake, or queues for it.
TnOpened(t) ==
    LET s == nstreams + 1
        got == io_lock = "free"
    IN /\ tk[t].pc = "open"
       /\ ~silent
       /\ nstreams < MaxStreams
       /\ nstreams' = s
       /\ openStreams' = openStreams \cup {s}
       /\ tn_reader' = s
       /\ tn_writer' = s
       /\ io_lock' = IF got THEN t ELSE io_lock
       /\ waiters' = IF got THEN waiters ELSE Append(waiters, t)
       /\ tk' = [tk EXCEPT ![t] =
                    IF got THEN [@ EXCEPT !.own = s, !.pc = "hs_login", !.io = s]
                    ELSE [@ EXCEPT !.own = s, !.pc = "hs_wait"]]
       /\ UNCHANGED <<callers, tn_prompt, tn_connected, silent, eof>>

\* An exception leaves async_connect and so async_run_command; in the retry it
\* passes the first attempt's finally, which closes self._writer.
TnRaisedInConnect(t) ==
    /\ openStreams' = IF tk[t].first_try THEN openStreams ELSE Closed
    /\ tk' = [tk EXCEPT ![t] = Back(@, "raise", @.out)]

\* open_connection raises.
TnOpenFails(t) ==
    /\ tk[t].pc = "open"
    /\ TnRaisedInConnect(t)
    /\ UNCHANGED <<callers, tn_reader, tn_writer, tn_prompt, tn_connected, io_lock,
                   waiters, nstreams, silent, eof>>

\* The queued task is handed the lock and starts reading for "login: ".
TnHandshakeResumes(t) ==
    /\ tk[t].pc = "hs_wait"
    /\ io_lock = t
    /\ tk' = [tk EXCEPT ![t] = [@ EXCEPT !.pc = "hs_login", !.io = tn_reader]]
    /\ UNCHANGED <<callers, tn_reader, tn_writer, tn_prompt, tn_connected, io_lock,
                   waiters, nstreams, openStreams, silent, eof>>

\* "login: " is read within 9 seconds: the username is written and the read
\* for "Password: " starts.
TnLoginRead(t) ==
    /\ tk[t].pc = "hs_login"
    /\ ~silent
    /\ tk[t].io \notin eof
    /\ tk' = [tk EXCEPT ![t] = [@ EXCEPT !.pc = "hs_password", !.io = tn_reader]]
    /\ UNCHANGED <<callers, tn_reader, tn_writer, tn_prompt, tn_connected, io_lock,
                   waiters, nstreams, openStreams, silent, eof>>

\* The read for "login: " times out: logged, and the handshake goes on.
TnLoginTimeout(t) ==
    /\ tk[t].pc = "hs_login"
    /\ tk[t].io \notin eof
    /\ tk' = [tk EXCEPT ![t] = [@ EXCEPT !.pc = "hs_password", !.io = tn_reader,
                                        !.hs = "timeout"]]
    /\ UNCHANGED <<callers, tn_reader, tn_writer, tn_prompt, tn_connected, io_lock,
                   waiters, nstreams, openStreams, silent, eof>>

\* The task leaves the handshake's with block and enters async_run_command's:
\* it takes the lock back at once if nobody is queued, else queues behind them.
TnEntersCommand(t, prompt, how) ==
    LET got == Released.holder = "free" IN
    /\ io_lock' = IF got THEN t ELSE Released.holder
    /\ waiters' = IF got THEN <<>> ELSE Append(Released.queue, t)
    /\ tk' = [tk EXCEPT ![t] =
                 IF got THEN CmdStarted([@ EXCEPT !.hs = how], tn_reader, prompt)
                 ELSE [@ EXCEPT !.pc = "cmd_wait", !.hs = how]]

\* The read for "login: " ends in IncompleteReadError (the router closed the
\* stream, or the stream had ended before): async_connect returns early, and
\* async_run_command goes on to the command.
TnLoginIncomplete(t) ==
    /\ tk[t].pc = "hs_login"
    /\ ~silent \/ tk[t].io \in eof
    /\ eof' = eof \cup {tk[t].io}
    /\ TnEntersCommand(t, tn_prompt, "incomplete")
    /\ UNCHANGED <<callers, tn_reader, tn_writer, tn_prompt, tn_connected,
                   nstreams, openStreams, silent>>

\* A handshake read raises what async_connect does not catch (the stream ended
\* or overran its limit): the lock is released and the exception leaves.
TnHandshakeRaises(t) ==
    /\ tk[t].pc \in {"hs_login", "hs_password", "hs_prompt"}
    /\ ~silent \/ (tk[t].pc # "hs_login" /\ tk[t].io \in eof)
    /\ io_lock' = Released.holder
    /\ waiters' = Released.queue
    /\ TnRaisedInConnect(t)
    /\ UNCHANGED <<callers, tn_reader, tn_writer, tn_prompt, tn_connected,
                   nstreams, silent, eof>>

\* "Password: " is read (no timeout): the password is written and the read for
\* the "#" of the prompt starts.
TnPasswordRead(t) ==
    /\ tk[t].pc = "hs_password"
    /\ ~silent
    /\ tk[t].io \notin eof
    /\ tk' = [tk EXCEPT ![t] = [@ EXCEPT !.pc = "hs_prompt", !.io = tn_reader]]
    /\ UNCHANGED <<callers, tn_reader, tn_writer, tn_prompt, tn_connected, io_lock,
                   waiters, nstreams, openStreams, silent, eof>>

\* The prompt is read (no timeout) and stored; async_connect ends connected,
\* and async_run_command goes on to the command.
TnPromptRead(t) ==
    /\ tk[t].pc = "hs_prompt"
    /\ ~silent
    /\ tk[t].io \notin eof
    /\ tn_prompt' = tk[t].io
    /\ tn_connected' = TRUE
    /\ TnEntersCommand(t, tk[t].io, IF tk[t].hs = "timeout" THEN "timeout" ELSE "done")
    /\ UNCHANGED <<callers, tn_reader, tn_writer, nstreams, openStreams, silent, eof>>

\* The queued task is handed the lock for the command.
TnCommandResumes(t) ==
    /\ tk[t].pc = "cmd_wait"
    /\ io_lock = t
    /\ tk' = [tk EXCEPT ![t] = CmdStarted(@, tn_reader, tn_prompt)]
    /\ UNCHANGED <<callers, tn_reader, tn_writer, tn_prompt, tn_connected, io_lock,
                   waiters, nstreams, openStreams, silent, eof>>

\* The command read ends and the call returns through finally.
TnLeavesRead(t, ret, out) ==
    /\ io_lock' = Released.holder
    /\ waiters' = Released.queue
    /\ openStreams' = Closed
    /\ tk' = [tk EXCEPT ![t] = Back(@, ret, out)]

\* The output up to the prompt is read within 9 seconds.
TnReadDone(t) ==
    /\ tk[t].pc = "cmd_read"
    /\ tk[t].rp # 0
    /\ ~silent
    /\ tk[t].io \notin eof
    /\ TnLeavesRead(t, "lines", "ok")
    /\ UNCHANGED <<callers, tn_reader, tn_writer, tn_prompt, tn_connected,
                   nstreams, silent, eof>>

\* The command read times out.
TnReadTimeout(t) ==
    /\ tk[t].pc = "cmd_read"
    /\ tk[t].rp # 0
    /\ tk[t].io \notin eof
    /\ TnLeavesRead(t, "empty", "timeout")
    /\ UNCHANGED <<callers, tn_reader, tn_writer, tn_prompt, tn_connected,
                   nstreams, silent, eof>>

\* BrokenPipeError or LimitOverrunError: the first try calls async_run_command
\* again from the except clause (its own finally still to come), the retry
\* returns the empty list.
TnReadLost(t) ==
    /\ tk[t].pc = "cmd_read"
    /\ tk[t].rp # 0
    /\ ~silent
    /\ tk[t].io \notin eof
    /\ IF tk[t].first_try
       THEN /\ io_lock' = Released.holder
            /\ waiters' = Released.queue
            /\ tk' = [tk EXCEPT ![t] =
                         [@ EXCEPT !.pc = "open", !.first_try = RetryFirstTry,
                                   !.tries = @ + 1, !.first = tk[t].own,
                                   !.own = 0, !.io = 0, !.rp = 0, !.out = "lost",
                                   !.hs = "none"]]
            /\ UNCHANGED openStreams
       ELSE TnLeavesRead(t, "empty", "lost")
    /\ UNCHANGED <<callers, tn_reader, tn_writer, tn_prompt, tn_connected,
                   nstreams, silent, eof>>

\* The command read raises what is not caught: IncompleteReadError, or the
\* TypeError of readuntil(None) when no prompt was ever stored.
TnReadRaises(t) ==
    /\ tk[t].pc = "cmd_read"
    /\ tk[t].rp = 0 \/ ~silent \/ tk[t].io \in eof
    /\ TnLeavesRead(t, "raise", "raise")
    /\ UNCHANGED <<callers, tn_reader, tn_writer, tn_prompt, tn_connected,
                   nstreams, silent, eof>>

\* The router stops responding.
RouterStops ==
    /\ ~silent
    /\ silent' = TRUE
    /\ UNCHANGED <<callers, tn_reader, tn_writer, tn_prompt, tn_connected, io_lock,
                   waiters, nstreams, openStreams, eof, tk>>

\* A step of a task inside a call.
TnStep(t) ==
    \/ TnOpened(t)
    \/ TnOpenFails(t)
    \/ TnHandshakeResumes(t)
    \/ TnLoginRead(t)
    \/ TnLoginTimeout(t)
    \/ TnLoginIncomplete(t)
    \/ TnHandshakeRaises(t)
    \/ TnPasswordRead(t)
    \/ TnPromptRead(t)
    \/ TnCommandResumes(t)
    \/ TnReadDone(t)
    \/ TnReadTimeout(t)
    \/ TnReadLost(t)
    \/ TnReadRaises(t)

\* ------------------------------------------------------ router output text
\* A hardware address as it is written: which address, the case of its hex
\* letters, the separator of its six pairs.
MacIds == 1..MaxMacs
MacTexts == [id : MacIds, case : {"lower", "upper"}, sep : {":", "-"}]
NoMac == [id |-> 0, case |-> "upper", sep |-> ":"]

\* str.upper()
Upper(m) == [m EXCEPT !.case = "upper"]

\* An output line. kind: "blank" the empty string, "junk" text no pattern
\* matches, "duid" a line starting with 'duid ', "lease" a dnsmasq lease line,
\* "arp" a line of arp -n, "wl" a line holding one address, "version" a line
\* holding the word version.
IpIds == {1, 2}
HostNames == {"TV", "*"}
TextLine(k) == [kind |-> k, mac |-> NoMac, ip |-> 0, host |-> ""]
LeaseLine(m, i, h) == [kind |-> "lease", mac |-> m, ip |-> i, host |-> h]
ArpLine(m, i) == [kind |-> "arp", mac |-> m, ip |-> i, host |-> ""]
WlLine(m) == [kind |-> "wl", mac |-> m, ip |-> 0, host |-> ""]

LeaseLines == {LeaseLine(m, i, h) : m \in MacTexts, i \in {1}, h \in HostNames}
ArpLines == {ArpLine(m, i) : m \in MacTexts, i \in IpIds}
WlLines == {WlLine(m) : m \in MacTexts}
ProbeLines == {TextLine("version"), TextLine("junk"), TextLine("blank")}

\* The sequences of one to n lines over a set of lines.
LinesUpTo(S, n) == UNION {[1..k -> S] : k \in 1..n}

\* regex.search(line) for the three patterns: the groups of the match, or None.
\* _MAC_REGEX takes colons only; _LEASES_REGEX and _ARP_REGEX take colons or
\* dashes.
Search(regex, line) ==
    CASE regex = "_MAC_REGEX" ->
           IF line.kind \in {"wl", "lease", "arp"} /\ line.mac.sep = ":"
           THEN Some([mac |-> line.mac]) ELSE None
      [] regex = "_LEASES_REGEX" ->
           IF line.kind = "lease"
           THEN Some([mac |-> line.mac, ip |-> line.ip, host |-> line.host])
           ELSE None
      [] regex = "_ARP_REGEX" ->
           IF line.kind = "arp"
           THEN Some([mac |-> line.mac, ip |-> line.ip]) ELSE None

\* The loop of _parse_lines that stops at the first line it cannot parse.
RECURSIVE ParseLinesBreak(_, _)
ParseLinesBreak(lines, regex) ==
    IF lines = <<>> THEN <<>>
    ELSE LET line == Head(lines) IN
         IF line.kind = "blank" THEN ParseLinesBreak(Tail(lines), regex)
         ELSE IF Search(regex, line) = None THEN <<>>
         ELSE <<Search(regex, line)[1]>> \o ParseLinesBreak(Tail(lines), regex)

\* DdWrt._parse_lines: the loop over the lines.
RECURSIVE ParseLines(_, _)
ParseLines(lines, regex) ==
    IF lines = <<>> THEN <<>>
    ELSE LET line == Head(lines) IN
         IF line.kind = "blank" THEN ParseLines(Tail(lines), regex)
         ELSE IF Search(regex, line) = None THEN ParseLines(Tail(lines), regex)
         ELSE <<Search(regex, line)[1]>> \o ParseLines(Tail(lines), regex)

\* ------------------------------------------------- DdWrt, the device queries

\* What the transport's async_run_command hands back to a query: a non-empty
\* list of lines, the empty list, the un-awaited coroutine of the SSH retry,
\* or an exception.
QLines(ls) == [kind |-> "lines", lines |-> ls]
QEmpty == [kind |-> "empty", lines |-> <<>>]
QCoroutine == [kind |-> "coroutine", lines |-> <<>>]
QRaised == [kind |-> "raise", lines |-> <<>>]
QNoOutcome == [kind |-> "none", lines |-> <<>>]

\* The failures async_run_command can end in, for a shell protocol.
FailureOutcomes(p) == {QEmpty} \cup (IF p = "ssh" THEN {QCoroutine} ELSE {})

\* A dict, and the store d[k] = v.
EmptyDict == [k \in {} |-> k]
DictPut(d, k, v) == [x \in (DOMAIN d) \cup {k} |-> IF x = k THEN v ELSE d[x]]

\* What a query (or the constructor) hands back: a list, a dict, an exception.
QList(s) == [kind |-> "list", list |-> s, dict |-> EmptyDict, exc |-> ""]
QDict(d) == [kind |-> "dict", list |-> <<>>, dict |-> d, exc |-> ""]
QRaise(e) == [kind |-> "raise", list |-> <<>>, dict |-> EmptyDict, exc |-> e]
QNone == [kind |-> "none", list |-> <<>>, dict |-> EmptyDict, exc |-> ""]

\* DdWrt.__init__
QueryInit ==
    /\ dd_asked = "none"
    /\ dd_protocol = "none"
    /\ wl_cmd = "none"
    /\ qpc = "idle"
    /\ qop = "none"
    /\ qcmds = <<>>
    /\ qprobe = QNoOutcome
    /\ qout = QNoOutcome
    /\ qparsed = None
    /\ qret = QNone

\* The probe's test that looks at every line.
WlCmdAnyLine(out) ==
    CASE out.kind = "raise" -> [cmd |-> "none", exc |-> "transport"]
      [] out.kind = "empty" -> [cmd |-> "iw", exc |-> ""]
      [] out.kind = "coroutine" -> [cmd |-> "none", exc |-> "TypeError"]
      [] out.kind = "lines" ->
           IF \E i \in 1..Len(out.lines) : out.lines[i].kind = "version"
           THEN [cmd |-> "wl", exc |-> ""] ELSE [cmd |-> "iw", exc |-> ""]

\* DdWrt.async_set_wl_cmd on what 'wl ver' handed back: the command chosen, or
\* the exception raised. lines[1] is the second line: IndexError on a list of
\* one line, TypeError on a coroutine.
WlCmd(out) ==
    CASE out.kind = "raise" -> [cmd |-> "none", exc |-> "transport"]
      [] out.kind = "empty" -> [cmd |-> "iw", exc |-> ""]
      [] out.kind = "coroutine" -> [cmd |-> "none", exc |-> "TypeError"]
      [] out.kind = "lines" ->
           IF Len(out.lines) < 2 THEN [cmd |-> "none", exc |-> "IndexError"]
           ELSE IF out.lines[2].kind = "version" THEN [cmd |-> "wl", exc |-> ""]
           ELSE [cmd |-> "iw", exc |-> ""]

\* The list of upper-cased addresses async_get_wl builds.
RECURSIVE WlDevices(_)
WlDevices(result) ==
    IF result = <<>> THEN <<>>
    ELSE <<Upper(Head(result).mac)>> \o WlDevices(Tail(result))

\* The dict async_get_leases builds: '*' becomes '', the address is upper-cased.
RECURSIVE LeaseDevices(_, _)
LeaseDevices(result, devices) ==
    IF result = <<>> THEN devices
    ELSE LET device == Head(result)
             host == IF device.host = "*" THEN "" ELSE device.host
             mac == Upper(device.mac)
         IN LeaseDevices(Tail(result),
                DictPut(devices, mac, [mac |-> mac, ip |-> device.ip, host |-> host]))

\* The dict of Device(mac, ip, None) async_get_arp builds.
RECURSIVE ArpDevices(_, _)
ArpDevices(result, devices) ==
    IF result = <<>> THEN devices
    ELSE LET device == Head(result)
             mac == Upper(device.mac)
         IN ArpDevices(Tail(result),
                DictPut(devices, mac, [mac |-> mac, ip |-> device.ip, name |-> None]))

\* lines = [line for line in lines if not line.startswith('duid ')]
NotDuid(line) == line.kind # "duid"

\* The pattern a query parses with.
RegexOf(o) ==
    CASE o = "wl" -> "_MAC_REGEX"
      [] o = "leases" -> "_LEASES_REGEX"
      [] o = "arp" -> "_ARP_REGEX"

\* The lines a query hands to _parse_lines.
ParseInput(o, out) ==
    IF o = "leases" THEN SelectSeq(out.lines, NotDuid) ELSE out.lines

\* The value of a shell query after its command handed back out: iterating
\* the coroutine raises TypeError.
QueryValue(o, out) ==
    CASE out.kind = "raise" -> QRaise("transport")
      [] out.kind = "empty" -> IF o = "wl" THEN QList(<<>>) ELSE QDict(EmptyDict)
      [] out.kind = "coroutine" -> QRaise("TypeError")
      [] out.kind = "lines" ->
           LET result == ParseLines(ParseInput(o, out), RegexOf(o)) IN
           CASE o = "wl" -> QList(WlDevices(result))
             [] o = "leases" -> QDict(LeaseDevices(result, EmptyDict))
             [] o = "arp" -> QDict(ArpDevices(result, EmptyDict))

\* The dhcp_leases value of Status_Lan.live.asp for the leases of a sequence
\* of dnsmasq lease lines, quotes and spaces removed and split at the commas:
\* name, ip, address, duration and id of each lease.
RECURSIVE HttpLeaseElements(_)
HttpLeaseElements(lines) ==
    IF lines = <<>> THEN <<>>
    ELSE LET l == Head(lines)
         IN <<l.host, l.ip, l.mac, "duration", "id">> \o HttpLeaseElements(Tail(lines))

\* DdWrt._parse_http_leases on the elements: every 5 elements are one host,
\* the name first, the ip second, the address third.
ParseHttpLeases(elements) ==
    LET num_clients == Len(elements) \div 5
    IN [idx \in 1..num_clients |->
           [mac |-> elements[(idx - 1) * 5 + 3],
            ip |-> elements[(idx - 1) * 5 + 2],
            host |-> elements[(idx - 1) * 5 + 1]]]

\* async_get_leases of an http client on the page for these leases.
HttpLeases(lines) ==
    QDict(LeaseDevices(ParseHttpLeases(HttpLeaseElements(lines)), EmptyDict))

\* The outputs a command can produce.
OutputsOf(o) ==
    CASE o = "probe" -> LinesUpTo(ProbeLines, MaxLines)
      [] o = "wl" -> LinesUpTo(WlLines \cup {TextLine("junk"), TextLine("blank")},
                               MaxLines)
      [] o = "leases" -> LinesUpTo(LeaseLines \cup {TextLine("duid"), TextLine("junk"),
                                                    TextLine("blank")}, MaxLines)
      [] o = "arp" -> LinesUpTo(ArpLines \cup {TextLine("junk"), TextLine("blank")},
                                MaxLines)

\* What async_run_command of the client's transport can hand back.
Outcomes(o) ==
    {QLines(ls) : ls \in OutputsOf(o)} \cup {QEmpty, QRaised}
        \cup (IF dd_protocol = "ssh" THEN {QCoroutine} ELSE {})

\* DdWrt(protocol=p): the connection is built; HttpConnection.__init__ takes
\* (hostname, username, password) and is called with four arguments, which
\* raises TypeError.
DdWrtNew(p) ==
    /\ dd_asked = "none"
    /\ dd_asked' = p
    /\ IF p = "http"
       THEN /\ dd_protocol' = "none"
            /\ qret' = QRaise("TypeError")
       ELSE /\ dd_protocol' = p
            /\ qret' = QNone
    /\ UNCHANGED <<wl_cmd, qpc, qop, qcmds, qprobe, qout, qparsed>>

\* async_get_wl, async_get_leases or async_get_arp is called on a shell
\* client: it awaits the probe when no wireless command is chosen yet, else
\* the query's command.
QueryCall(o) ==
    /\ dd_protocol \in {"ssh", "telnet"}
    /\ qpc = "idle"
    /\ qop' = o
    /\ IF o = "wl" /\ wl_cmd = "none"
       THEN /\ qpc' = "probe"
            /\ qcmds' = <<"wl ver">>
       ELSE /\ qpc' = "run"
            /\ qcmds' = <<IF o = "wl" THEN wl_cmd ELSE o>>
    /\ qprobe' = QNoOutcome
    /\ qout' = QNoOutcome
    /\ qparsed' = None
    /\ qret' = QNone
    /\ UNCHANGED <<dd_asked, dd_protocol, wl_cmd>>

\* The call ends.
QueryReturn(r) ==
    /\ qpc' = "idle"
    /\ qret' = r

\* 'wl ver' hands back out: async_set_wl_cmd chooses the command, which is
\* stored and issued, or raises.
ProbeEnds(out) ==
    /\ qpc = "probe"
    /\ qprobe' = out
    /\ IF WlCmd(out).exc # ""
       THEN /\ QueryReturn(QRaise(WlCmd(out).exc))
            /\ UNCHANGED <<wl_cmd, qcmds>>
       ELSE /\ wl_cmd' = WlCmd(out).cmd
            /\ qcmds' = Append(qcmds, WlCmd(out).cmd)
            /\ qpc' = "run"
            /\ UNCHANGED qret
    /\ UNCHANGED <<dd_asked, dd_protocol, qop, qout, qparsed>>

\* The query's command hands back out and the query returns.
RunEnds(out) ==
    /\ qpc = "run"
    /\ qout' = out
    /\ qparsed' = IF out.kind = "lines"
                  THEN Some([lines |-> ParseInput(qop, out), regex |-> RegexOf(qop),
                             results |-> ParseLines(ParseInput(qop, out), RegexOf(qop))])
                  ELSE None
    /\ QueryReturn(QueryValue(qop, out))
    /\ UNCHANGED <<dd_asked, dd_protocol, wl_cmd, qop, qcmds, qprobe>>

\* ------------------------------------------------------------------- HTTP

Pages == {"Status_Lan.live.asp", "Status_Wireless.live.asp"}

\* An aiohttp session: none, one the library created, the caller's own.
NoSession == [owner |-> "none", id |-> 0]
LibrarySession(k) == [owner |-> "library", id |-> k]
CallerSession == [owner |-> "caller", id |-> 0]

\* No HttpConnection has been constructed.
HttpInit ==
    /\ h_made = FALSE
    /\ h_given = NoSession
    /\ h_session = NoSession
    /\ h_is_connected = FALSE
    /\ h_nsessions = 0
    /\ h_closed = {}
    /\ h_log = <<>>
    /\ h_ret = "none"

\* The value __init__ gives is_connected, had it started disconnected.
ConnectedAtInitFalse == FALSE

\* The value HttpConnection.__init__ gives is_connected ("mark as connected").
ConnectedAtInit == TRUE

\* HttpConnection(hostname, username, password)
HttpNew ==
    /\ ~h_made
    /\ h_ret = "none"
    /\ h_made' = TRUE
    /\ h_session' = NoSession
    /\ h_is_connected' = ConnectedAtInit
    /\ UNCHANGED <<h_given, h_nsessions, h_closed, h_log, h_ret>>

\* HttpConnection(host, http_session, username, password), the call DdWrt's
\* constructor makes for protocol 'http': __init__ takes three arguments, so
\* the call raises TypeError and no object is made.
HttpNewWithSession(s) ==
    /\ ~h_made
    /\ h_ret = "none"
    /\ h_given' = s
    /\ h_ret' = "raise"
    /\ UNCHANGED <<h_made, h_session, h_is_connected, h_nsessions, h_closed, h_log>>

\* async_set_session: a session is made when there is none.
SetSession ==
    IF h_session = NoSession
    THEN [session |-> LibrarySession(h_nsessions + 1), made |-> h_nsessions + 1]
    ELSE [session |-> h_session, made |-> h_nsessions]

\* async_get_page(page): the session is made when there is none, and the GET
\* on it returns the body, or raises (a closed session always raises).
HttpGetPage(page, ok) ==
    /\ h_made
    /\ Len(h_log) < MaxGets
    /\ h_session' = SetSession.session
    /\ h_nsessions' = SetSession.made
    /\ LET good == ok /\ SetSession.session \notin h_closed IN
       /\ h_log' = Append(h_log, [page |-> page, session |-> SetSession.session,
                                  ok |-> good])
       /\ h_ret' = IF good THEN "page" ELSE "raise"
    /\ UNCHANGED <<h_made, h_given, h_is_connected, h_closed>>

\* clean_up: the session, if any, is closed.
HttpCleanUp ==
    /\ h_made
    /\ h_closed' = IF h_session # NoSession THEN h_closed \cup {h_session} ELSE h_closed
    /\ h_ret' = "none"
    /\ UNCHANGED <<h_made, h_given, h_session, h_is_connected, h_nsessions, h_log>>

\* ------------------------------------------------ device directory merger
\* fetch-connected-devices is described by the specification only (section
\* 4.3): DdWrt has no such method. Addresses are in their canonical form here.

CanonMacs == {[id |-> i, case |-> "upper", sep |-> ":"] : i \in 1..MaxDevices}

\* Device(mac, ip, name); an absent ip or name is None.
Device(mac, ip, name) == [mac |-> mac, ip |-> ip, name |-> name]

\* The partial mappings from addresses to the values in V.
PartialMaps(V) == UNION {[S -> V] : S \in SUBSET CanonMacs}

LeaseValues == {[ip |-> 1, host |-> "TV"], [ip |-> 2, host |-> ""]}

\* Nothing has been scanned.
MergeInit ==
    /\ m_mode = "none"
    /\ m_wl = {}
    /\ m_arp = EmptyDict
    /\ m_leases = EmptyDict
    /\ m_dir = EmptyDict

\* Pass 1: the wireless list seeds the directory with address-only records.
RECURSIVE WirelessPass(_, _)
WirelessPass(dir, wl) ==
    IF wl = {} THEN dir
    ELSE LET m == CHOOSE x \in wl : TRUE
         IN WirelessPass(DictPut(dir, m, Device(m, None, None)), wl \ {m})

\* Pass 2: the ARP table adds or overwrites the ip of known and of new
\* addresses.
RECURSIVE ArpPass(_, _, _)
ArpPass(dir, arp, todo) ==
    IF todo = {} THEN dir
    ELSE LET m == CHOOSE x \in todo : TRUE
         IN ArpPass(DictPut(dir, m, Device(m, Some(arp[m]), None)), arp, todo \ {m})

\* The lease pass that adds every lease, known address or not.
RECURSIVE LeasePassUnconditional(_, _, _)
LeasePassUnconditional(dir, leases, todo) ==
    IF todo = {} THEN dir
    ELSE LET m == CHOOSE x \in todo : TRUE
         IN LeasePassUnconditional(
                DictPut(dir, m, Device(m, Some(leases[m].ip), Some(leases[m].host))),
                leases, todo \ {m})

\* Pass 3, enrichment only: a lease gives its ip and name to an address the
\* first two passes found, and is dropped otherwise.
RECURSIVE LeasePass(_, _, _)
LeasePass(dir, leases, todo) ==
    IF todo = {} THEN dir
    ELSE LET m == CHOOSE x \in todo : TRUE
         IN LeasePass(
                IF m \in DOMAIN dir
                THEN DictPut(dir, m, Device(m, Some(leases[m].ip), Some(leases[m].host)))
                ELSE dir,
                leases, todo \ {m})

\* The three passes in order; in access-point mode the leases are skipped.
ConnectedDevices(mode, wl, arp, leases) ==
    LET seeded == WirelessPass(EmptyDict, wl)
        withArp == ArpPass(seeded, arp, DOMAIN arp)
    IN IF mode = "router" THEN LeasePass(withArp, leases, DOMAIN leases) ELSE withArp

\* The first fetch-connected-devices of a client, on what the three queries
\* found.
MergeScan(mode, wl, arp, leases) ==
    /\ m_mode = "none"
    /\ m_mode' = mode
    /\ m_wl' = wl
    /\ m_arp' = arp
    /\ m_leases' = leases
    /\ m_dir' = ConnectedDevices(mode, wl, arp, leases)

\* ---------------------------------------------------------- specifications

Init == TrackerInit /\ SshInit /\ TelnetInit /\ QueryInit /\ HttpInit /\ MergeInit

\* The tracker and the SSH connection do not depend on who calls Telnet.
InitOthers == Init /\ callers = Tasks

\* The tracker alone: the connections stay as constructed.
TrackerNext ==
    \/ (\E o \in {"bytes", "rates"}, uc \in BOOLEAN : Begin(o, uc))
           /\ UNCHANGED exceptTracker
    \/ (\E v \in RxReadings : FetchRx(v)) /\ UNCHANGED exceptTracker
    \/ (\E v \in TxReadings : FetchTx(v)) /\ UNCHANGED exceptTracker
    \/ FetchFails /\ UNCHANGED exceptTracker
    \/ Tick /\ UNCHANGED exceptTracker

SpecTracker == InitOthers /\ [][TrackerNext]_vars

\* The SSH connection alone.
SshNext ==
    \/ (\E c \in Commands, r \in BOOLEAN : SshCall(c, r))
           /\ UNCHANGED exceptSsh
    \/ SshConnected /\ UNCHANGED exceptSsh
    \/ SshConnectFails /\ UNCHANGED exceptSsh
    \/ SshRunOk /\ UNCHANGED exceptSsh
    \/ SshRunTimeout /\ UNCHANGED exceptSsh
    \/ SshRunChannelOpenError /\ UNCHANGED exceptSsh
    \/ SshRunRaises /\ UNCHANGED exceptSsh
    \/ SshReconnected /\ UNCHANGED exceptSsh

SpecSsh == InitOthers /\ [][SshNext]_vars

\* The Telnet connection alone, used by one task or by two.
TelnetNext ==
    \/ (\E t \in Tasks : TnCall(t)) /\ UNCHANGED exceptTelnet
    \/ (\E t \in Tasks : TnOpened(t)) /\ UNCHANGED exceptTelnet
    \/ (\E t \in Tasks : TnOpenFails(t)) /\ UNCHANGED exceptTelnet
    \/ (\E t \in Tasks : TnHandshakeResumes(t)) /\ UNCHANGED exceptTelnet
    \/ (\E t \in Tasks : TnLoginRead(t)) /\ UNCHANGED exceptTelnet
    \/ (\E t \in Tasks : TnLoginTimeout(t)) /\ UNCHANGED exceptTelnet
    \/ (\E t \in Tasks : TnLoginIncomplete(t)) /\ UNCHANGED exceptTelnet
    \/ (\E t \in Tasks : TnHandshakeRaises(t)) /\ UNCHANGED exceptTelnet
    \/ (\E t \in Tasks : TnPasswordRead(t)) /\ UNCHANGED exceptTelnet
    \/ (\E t \in Tasks : TnPromptRead(t)) /\ UNCHANGED exceptTelnet
    \/ (\E t \in Tasks : TnCommandResumes(t)) /\ UNCHANGED exceptTelnet
    \/ (\E t \in Tasks : TnReadDone(t)) /\ UNCHANGED exceptTelnet
    \/ (\E t \in Tasks : TnReadTimeout(t)) /\ UNCHANGED exceptTelnet
    \/ (\E t \in Tasks : TnReadLost(t)) /\ UNCHANGED exceptTelnet
    \/ (\E t \in Tasks : TnReadRaises(t)) /\ UNCHANGED exceptTelnet
    \/ RouterStops /\ UNCHANGED exceptTelnet

SpecTelnet == Init /\ [][TelnetNext]_vars

\* The event loop runs every task that can take a step.
TelnetFairness ==
    \A t \in Tasks :
        WF_vars(TnStep(t) /\ UNCHANGED exceptTelnet)

LiveTelnet == SpecTelnet /\ TelnetFairness

\* The device queries alone.
QueryNext ==
    \/ (\E p \in {"ssh", "telnet", "http"} : DdWrtNew(p))
           /\ UNCHANGED exceptQuery
    \/ (\E o \in {"wl", "leases", "arp"} : QueryCall(o))
           /\ UNCHANGED exceptQuery
    \/ (\E out \in Outcomes("probe") : ProbeEnds(out))
           /\ UNCHANGED exceptQuery
    \/ (qpc = "run" /\ \E out \in Outcomes(qop) : RunEnds(out))
           /\ UNCHANGED exceptQuery

SpecQuery == InitOthers /\ [][QueryNext]_vars

\* The HTTP connection alone.
HttpNext ==
    \/ HttpNew /\ UNCHANGED exceptHttp
    \/ (\E s \in {NoSession, CallerSession} : HttpNewWithSession(s))
           /\ UNCHANGED exceptHttp
    \/ (\E page \in Pages, ok \in BOOLEAN : HttpGetPage(page, ok))
           /\ UNCHANGED exceptHttp
    \/ HttpCleanUp /\ UNCHANGED exceptHttp

SpecHttp == InitOthers /\ [][HttpNext]_vars

\* The merger alone, on every outcome of the three queries.
MergeNext ==
    \/ (m_mode = "none" /\
           \E mode \in {"router", "ap"}, wl \in SUBSET CanonMacs,
              arp \in PartialMaps(IpIds), leases \in PartialMaps(LeaseValues) :
                  MergeScan(mode, wl, arp, leases))
           /\ UNCHANGED exceptMerge

SpecMerge == InitOthers /\ [][MergeNext]_vars

\* A client has one connection, of one transport: the other two are never
\* constructed.
TransportNext ==
    \/ TelnetInit /\ HttpInit /\ SshNext
    \/ SshInit /\ HttpInit /\ TelnetNext
    \/ SshInit /\ TelnetInit /\ HttpNext

SpecTransports == Init /\ [][TransportNext]_vars

\* ------------------------------------------------- claims on the tracker

\* The call in progress returns a pair in this step.
RatesCallReturns ==
    /\ tpc = "tx"
    /\ op = "rates"
    /\ tpc' = "idle"
    /\ tret'.kind = "pair"

\* Seconds between the call in progress and the last baseline or computation.
SinceLastComp == now[1] - lastComp[1][1]

\* C1: a async_get_bytes_total(use_cache=True) call made less than the cache
\* time after a previous successful one issues no RX or TX command (it is never
\* found waiting on the transport) and returns the pair the previous one read.
C1_SecondCallServedFromCache ==
    /\ (tpc # "idle" /\ op = "bytes" /\ use_cache) =>
           (lastReadAt = None \/ now[1] - lastReadAt[1] >= cache_time)
    /\ (tpc = "idle" /\ branch = "bytes" /\ cmds = 0) =>
           (lastRead # None /\ tret = Returned(lastRead[1]))

\* C2: a rate is computed only when at least 30 seconds have passed since the
\* last computation or baseline, so the divisor is never below 30; a call
\* inside the floor returns the rate pair the preceding call returned.
C2_FloorRespected ==
    [][ /\ (RatesCallReturns /\ branch' \in {"computed", "reset"}) =>
               (lastComp # None /\ SinceLastComp >= RateFloor)
        /\ (RatesCallReturns /\ lastComp # None /\ SinceLastComp < RateFloor) =>
               (lastRates # None /\ tret'.val = lastRates[1]) ]_vars

\* A floor call has returned a rate that an earlier computation found non-zero.
C2_Witness ==
    /\ tpc = "idle"
    /\ branch = "floor"
    /\ tret.kind = "pair"
    /\ tret.val[1] > 0

\* The least integer not below n / secs.
CeilOf(n, secs) == CHOOSE q \in 0..n : q * secs >= n /\ (q - 1) * secs < n

\* The rate the specification asks for, from two readings secs apart.
RateOf(cur, prev, secs) ==
    CeilOf(IF cur >= prev THEN cur - prev ELSE cur, secs)

\* C3: a computation made at least 30 seconds after the previous one reports,
\* for rx and tx independently, ceil(delta / elapsed) with delta = current -
\* previous, or current after a counter reset; a zero delta gives 0, and no
\* reported rate is ever negative.
C3_RateIsCeilOfDelta ==
    /\ [](latest_transfer_data[1] >= 0 /\ latest_transfer_data[2] >= 0)
    /\ [][ (RatesCallReturns /\ lastComp # None /\ SinceLastComp >= RateFloor) =>
              /\ lastRead' # None
              /\ tret'.val =
                    <<RateOf(lastRead'[1][1], lastComp[1][2][1], SinceLastComp),
                      RateOf(lastRead'[1][2], lastComp[1][2][2], SinceLastComp)>>
              /\ latest_transfer_data' = tret'.val
              /\ (lastRead'[1][1] = lastComp[1][2][1] => tret'.val[1] = 0) ]_vars

\* A computation after the rx counter fell has reported a non-zero rx rate
\* and, for an unchanged tx counter, a zero tx rate.
C3_Witness ==
    /\ tpc = "idle"
    /\ branch = "reset"
    /\ lastRead # None
    /\ lastRead[1][1] = ByteScale
    /\ tret.val[1] > 0
    /\ tret.val[2] = 0

\* C4: the first successful async_get_current_transfer_rates call of a client
\* stores the counters it read and its time as the baseline and returns (0, 0).
C4_FirstCallIsBaseline ==
    [][ (RatesCallReturns /\ lastComp = None) =>
            /\ tret' = Returned(<<0, 0>>)
            /\ lastRead' # None
            /\ rx_latest' = Some(lastRead'[1][1])
            /\ tx_latest' = Some(lastRead'[1][2])
            /\ latest_transfer_check' = now ]_vars

\* A first call has read non-zero, different counters and returned (0, 0).
C4_Witness ==
    /\ tpc = "idle"
    /\ branch = "baseline"
    /\ rx_latest = Some(MaxUnits * ByteScale)
    /\ tx_latest = Some(ByteScale)
    /\ tret = Returned(<<0, 0>>)

\* The rates call in progress ends in this step, with a pair or an exception.
RatesCallEnds ==
    /\ tpc # "idle"
    /\ op = "rates"
    /\ tpc' = "idle"

\* The stored baseline and rate of the tracker.
trackerState == <<rx_latest, tx_latest, latest_transfer_check, latest_transfer_data>>

\* C21: a rates call made less than 30 seconds after the last computation or
\* baseline leaves the baseline counters, the baseline timestamp and the stored
\* rate as they were, so the stored baseline is always the time and readings of
\* the last computation: the next computation measures from there.
C21_FloorCallKeepsBaseline ==
    /\ [](lastComp # None =>
              /\ latest_transfer_check = Some(lastComp[1][1])
              /\ rx_latest = Some(lastComp[1][2][1])
              /\ tx_latest = Some(lastComp[1][2][2]))
    /\ [][ (RatesCallEnds /\ lastComp # None /\ SinceLastComp < RateFloor) =>
              UNCHANGED <<trackerState, lastComp>> ]_vars

\* A call inside the floor has read counters that differ from the baseline,
\* later than the baseline, and returned: the baseline is still the older one.
C21_Witness ==
    /\ tpc = "idle"
    /\ branch = "floor"
    /\ lastRead # None
    /\ lastComp # None
    /\ lastRead[1] # lastComp[1][2]
    /\ clock > lastComp[1][1]
    /\ rx_latest = Some(lastComp[1][2][1])
    /\ latest_transfer_check = Some(lastComp[1][1])

\* The call in progress ends in this step without a pair of counters read:
\* the RX or the TX fetch failed.
FetchFailed ==
    /\ RatesCallEnds
    /\ lastRead' = None

\* C22: when the RX or TX fetch of a rates call fails, the call raises and the
\* baseline counters, the baseline timestamp and the stored rate are what they
\* were before the call; the rx and tx baselines are only ever set together,
\* with the timestamp.
C22_FailedFetchLeavesState ==
    /\ []((rx_latest = None <=> tx_latest = None)
            /\ (rx_latest = None <=> latest_transfer_check = None))
    /\ [][ FetchFailed =>
              /\ tret' = Raised
              /\ UNCHANGED <<trackerState, lastComp, lastRates>> ]_vars

\* After a baseline and a computed non-zero rate, a rates call read an RX
\* counter, failed on the TX fetch and raised.
C22_Witness ==
    /\ tpc = "idle"
    /\ branch = "raised"
    /\ tret = Raised
    /\ cmds = 2
    /\ lastRead = None
    /\ rx_latest # None
    /\ latest_transfer_data[1] > 0

\* ------------------------------------------- claims on the SSH connection

\* C5: when the first run of a call fails with a channel-open failure and the
\* reconnect succeeds, the same command is issued exactly once more within the
\* call, and the caller receives the lines of that second run or the empty
\* list; a call never issues its command more than twice.
C5_ChannelOpenRetryReissues ==
    /\ Len(issued) <= 2
    /\ (spc = "idle" /\ chanFail /\ sret.kind # "raise") =>
           /\ Len(issued) = 2
           /\ issued[2].cmd = issued[1].cmd
           /\ issued[2].session = ssh_client.id
           /\ sret \in {SshLines(issued[2].session), SshEmpty}

\* C6, for SSH: a call that returned the empty list left is_connected false.
C6_SshEmptyMeansDisconnected ==
    (spc = "idle" /\ sret = SshEmpty) => ~ssh_connected

\* C14: no session is opened at construction; a new session is established
\* only when a call starts with is_connected false or right after a
\* channel-open failure; commands that all succeed make one connect in total
\* and all run on that session.
C14_SessionsOnlyWhenNeeded ==
    /\ [](ssh_client = NoClient <=> nsessions = 0)
    /\ []((~sfailed /\ spc = "idle" /\ sret.kind = "lines") =>
               (nsessions = 1 /\ sret.session = 1 /\ ssh_client = Session(1)))
    /\ [][nsessions' # nsessions =>
              /\ nsessions' = nsessions + 1
              /\ \/ spc = "connect" /\ ~ssh_connected /\ ~sreuse
                 \/ spc = "reconnect" /\ chanFail]_vars

\* A call that started on the session of an earlier call has returned its
\* lines, no call having failed: the one session was reused.
C14_Witness ==
    /\ ~sfailed
    /\ spc = "idle"
    /\ sreuse
    /\ sret = SshLines(1)
    /\ nsessions = 1

\* ---------------------------------------- claims on the Telnet connection

\* The task's command read ends in this step.
ReadEnds(t) == tk[t].pc = "cmd_read" /\ tk'[t].pc # "cmd_read"

\* The task returns from async_run_command in this step.
CallEnds(t) == tk[t].pc # "idle" /\ tk'[t].pc = "idle"

\* The task is between its connect and the end of its read-until-prompt.
InAttempt(t) ==
    tk[t].pc \in {"hs_wait", "hs_login", "hs_password", "hs_prompt",
                  "cmd_wait", "cmd_read"}

\* C6: whenever a command times out, async_run_command returns the empty list
\* and is_connected is false when it returns (stated for a single caller).
C6_TimeoutDisconnects ==
    [][ \A t \in Tasks :
          (callers = {t} /\ ReadEnds(t) /\ tk'[t].out = "timeout") =>
              /\ tk'[t].pc = "idle"
              /\ tk'[t].ret = "empty"
              /\ ~tn_connected' ]_vars

\* C7: under any interleaving of concurrent calls, the object's stream stays
\* the one the call opened, open, from the call's connect to the end of its
\* read, and every read the call waits on is on that stream.
C7_CallUsesItsOwnStream ==
    \A t \in Tasks :
        InAttempt(t) =>
            /\ tn_writer = tk[t].own
            /\ tn_reader = tk[t].own
            /\ tk[t].own \in openStreams
            /\ tk[t].io \in {0, tk[t].own}

\* C8: when a call returns a result (lines, or the empty list), no stream it
\* opened, on the first attempt or on the retry, is still open (stated for a
\* single caller).
C8_StreamsClosedOnReturn ==
    [][ \A t \in Tasks :
          (callers = {t} /\ CallEnds(t) /\ tk'[t].ret \in {"lines", "empty"}) =>
              /\ tk[t].own \notin openStreams'
              /\ tk[t].first \notin openStreams' ]_vars

\* C9: a call makes at most two attempts: a broken pipe or overrun on the
\* first attempt starts exactly one retry, with a new connect; on the retry it
\* returns the empty list; a timeout on either attempt returns the empty list
\* with no further attempt and without raising.
C9_AtMostOneRetry ==
    /\ [](\A t \in Tasks : tk[t].tries <= 2 /\ tk[t].sent <= tk[t].tries)
    /\ [][ \A t \in Tasks :
             ReadEnds(t) =>
                 /\ (tk'[t].out = "lost" /\ tk[t].tries = 1) =>
                        (tk'[t].pc = "open" /\ tk'[t].tries = 2)
                 /\ (tk'[t].out = "lost" /\ tk[t].tries = 2) =>
                        (tk'[t].pc = "idle" /\ tk'[t].ret = "empty")
                 /\ (tk'[t].out = "timeout") =>
                        /\ tk'[t].pc = "idle"
                        /\ tk'[t].ret = "empty"
                        /\ tk'[t].tries = tk[t].tries ]_vars

\* A call has lost its first attempt, sent the command again on the retry,
\* lost that too and returned the empty list.
C9_Witness ==
    /\ tk["a"].pc = "idle"
    /\ tk["a"].tries = 2
    /\ tk["a"].sent = 2
    /\ tk["a"].out = "lost"
    /\ tk["a"].ret = "empty"

\* C10: every network wait is bounded by the timeout, so every call
\* eventually returns, even if the router stops responding.
C10_EveryCallReturns ==
    \A t \in Tasks : (tk[t].pc # "idle") ~> (tk[t].pc = "idle")

\* The task is queued on the lock, in the handshake or before the command.
WaitsForLock(t) == tk[t].pc \in {"hs_wait", "cmd_wait"} /\ io_lock # t

\* The task is inside one of the two with blocks, or has just been handed the
\* lock for one.
InWithBlock(t) ==
    tk[t].pc \in {"hs_wait", "hs_login", "hs_password", "hs_prompt",
                  "cmd_wait", "cmd_read"}

\* C23, the lock discipline: the lock is held only by a task inside a with
\* block, so it is released on every path out of the handshake and out of the
\* write/read pair; a task that returns or starts its retry neither holds the
\* lock nor is queued on it; the lock is free when nobody is queued or inside.
C23_LockReleasedOnEveryExit ==
    /\ [](\A t \in Tasks :
             /\ io_lock = t => InWithBlock(t)
             /\ tk[t].pc \in {"idle", "open"} =>
                    (io_lock # t /\ \A i \in 1..Len(waiters) : waiters[i] # t)
             /\ WaitsForLock(t) => (io_lock \in Tasks \ {t} /\ InWithBlock(io_lock)))
    /\ [][ \A t \in Tasks :
             (tk'[t].pc = "open" /\ tk'[t].tries = 2 /\ tk[t].tries = 1) =>
                 (io_lock = t /\ io_lock' # t) ]_vars

\* C23: under any interleaving of concurrent calls, no call waits forever for
\* the lock.
C23_NoCallWaitsForever ==
    \A t \in Tasks : WaitsForLock(t) ~> ~WaitsForLock(t)

\* C23, while the router responds: a call queued on the lock gets it.
C23_NoCallWaitsForeverOnLiveRouter ==
    (<>silent) \/ (\A t \in Tasks : WaitsForLock(t) ~> ~WaitsForLock(t))

\* The task has written its command and is reading up to the prompt.
CommandSent(t) == tk[t].pc = "cmd_read"

\* C24: a command is written only after the login handshake of the call has
\* completed on the stream the command goes to, and its read ends at the prompt
\* captured in that handshake: never on a stream whose handshake was aborted
\* or timed out, never against the prompt of an earlier connection.
C24_CommandAfterOwnHandshake ==
    \A t \in Tasks :
        CommandSent(t) =>
            /\ tk[t].hs = "done"
            /\ tk[t].io = tk[t].own
            /\ tk[t].rp = tk[t].own

\* C24, for a single caller whose handshake read all three prompts in time:
\* the command goes to the stream of that handshake and is read against the
\* prompt it captured.
C24_OneCallerCompletedHandshake ==
    \A t \in Tasks :
        (callers = {t} /\ CommandSent(t) /\ tk[t].hs = "done") =>
            /\ tk[t].io = tk[t].own
            /\ tk[t].rp = tk[t].own
            /\ tn_prompt = tk[t].own

\* -------------------------------------------- claims on the device queries

\* The empty collection of a query: [] for the wireless list, {} for the rest.
EmptyResult(o) == IF o = "wl" THEN QList(<<>>) ELSE QDict(EmptyDict)

\* A call has returned.
QueryDone == qpc = "idle" /\ qop # "none"

\* C11: when async_run_command ended in a failure (timeout, exhausted retry,
\* or a channel-open failure on the first attempt) under async_get_wl,
\* async_get_leases or async_get_arp, the query returns the empty collection
\* and does not raise.
C11_FailedQueryReturnsEmpty ==
    QueryDone =>
        /\ qout \in FailureOutcomes(dd_protocol) => qret = EmptyResult(qop)
        /\ qprobe \in FailureOutcomes(dd_protocol) => qret.kind # "raise"

\* The timeout half of C11: an empty list from the transport gives the empty
\* collection.
C11_EmptyListGivesEmpty ==
    QueryDone /\ qout = QEmpty => qret = EmptyResult(qop)

\* ------------------------------------------------- claims on the connections

\* The SSH half of C12: a call that ended because asyncssh.connect raised
\* hands the exception to its caller.
C12_SshConnectFailureRaises ==
    [][(spc \in {"connect", "reconnect"} /\ spc' = "idle" /\ nsessions' = nsessions)
           => (sret' = SshRaised)]_vars

\* C12: when the connection could not be set up (the Telnet handshake could
\* not be read from the router: the read for "login: " met the end of the
\* stream), async_run_command signals an error to its caller; it never returns
\* an empty or a normal result.
C12_FailedHandshakeRaises ==
    \A t \in Tasks :
        tk[t].pc = "idle" /\ tk[t].hs = "incomplete" => tk[t].ret = "raise"

\* C12 for a connection used by one task.
C12_OneCallerFailedHandshakeRaises ==
    callers = {"a"} => C12_FailedHandshakeRaises

\* Some request of the HTTP connection has succeeded.
HttpSucceeded == \E i \in 1..Len(h_log) : h_log[i].ok

\* The SSH and Telnet halves of C13: connected only with a session
\* established, with a handshake completed.
C13_ShellConnectedOnlyAfterSuccess ==
    /\ ssh_connected => (nsessions > 0 /\ ssh_client.state = "session")
    /\ tn_connected => tn_prompt # 0

\* C13: for each of the three transports is_connected is false when the
\* connection is constructed and becomes true only after a connection attempt
\* on that transport has succeeded.
C13_ConnectedOnlyAfterSuccess ==
    /\ C13_ShellConnectedOnlyAfterSuccess
    /\ h_is_connected => HttpSucceeded

\* C13 as amended: for SSH and Telnet is_connected is false at construction
\* and true only after a connection attempt has succeeded; an HttpConnection
\* is marked connected from its construction on.
C13_ConnectedOnlyAfterSuccessButHttp ==
    /\ C13_ShellConnectedOnlyAfterSuccess
    /\ h_made => h_is_connected
    /\ ~h_made => ~h_is_connected

\* An HttpConnection has been constructed, has made no request, and says it
\* is connected.
C13_Witness == h_made /\ h_log = <<>> /\ h_is_connected

\* The library's half of C15: it creates at most one session, none at
\* construction, and every request goes through the session of the first.
C15_LibrarySessionLazyAndSingle ==
    /\ h_nsessions <= 1
    /\ (h_made /\ h_log = <<>>) => (h_session = NoSession /\ h_nsessions = 0)
    /\ \A i \in 1..Len(h_log) : h_log[i].session = h_log[1].session

\* C15: the library creates at most one HTTP session, on the first
\* async_get_page and not at construction, and every later request reuses it;
\* a session the caller supplied is used instead, and clean_up never closes it.
C15_OneSessionCallersNeverClosed ==
    /\ C15_LibrarySessionLazyAndSingle
    /\ h_given = CallerSession =>
           /\ h_made
           /\ h_session = CallerSession
           /\ h_nsessions = 0
           /\ CallerSession \notin h_closed

\* The addresses in what the last query returned.
ReturnedMacs ==
    {qret.list[i] : i \in 1..Len(qret.list)}
        \cup DOMAIN qret.dict \cup {qret.dict[k].mac : k \in DOMAIN qret.dict}

\* The case half of C17: every address returned is in upper case.
C17_ReturnedMacsAreUpperCase ==
    QueryDone => \A m \in ReturnedMacs : m.case = "upper"

\* C17: whatever the letter case and the separator (colon or dash) of the
\* addresses in the router's output, every element async_get_wl returns and
\* every key and 'mac' field async_get_arp and async_get_leases return is the
\* uppercase, colon-separated form.
C17_ReturnedMacsAreCanonical ==
    QueryDone => \A m \in ReturnedMacs : m.case = "upper" /\ m.sep = ":"

\* The non-empty lines of a sequence that a pattern matches, in order.
MatchingLines(lines, regex) ==
    LET Matches(line) == line.kind # "blank" /\ Search(regex, line) # None
    IN SelectSeq(lines, Matches)

\* C18: _parse_lines returns one field-mapping for each non-empty line the
\* pattern matches and nothing else, in input order; an empty or non-matching
\* line raises nothing and does not stop the lines after it from being parsed.
C18_ParseLinesKeepsEveryMatch ==
    /\ qparsed # None =>
           LET kept == MatchingLines(qparsed[1].lines, qparsed[1].regex) IN
           /\ Len(qparsed[1].results) = Len(kept)
           /\ \A i \in 1..Len(kept) :
                  qparsed[1].results[i] = Search(qparsed[1].regex, kept[i])[1]
    /\ (QueryDone /\ qout.kind = "lines") => (qparsed # None /\ qret.kind # "raise")

\* A line that is not empty and does not match was followed by a line that
\* matches, and the match was returned.
C18_Witness ==
    /\ qparsed # None
    /\ Len(qparsed[1].lines) = 2
    /\ qparsed[1].lines[1].kind = "junk"
    /\ Search(qparsed[1].regex, qparsed[1].lines[2]) # None
    /\ Len(qparsed[1].results) = 1

\* A shell lease query has returned on output made of lease lines only.
LeasesParsed ==
    /\ QueryDone
    /\ qop = "leases"
    /\ qout.kind = "lines"
    /\ \A i \in 1..Len(qout.lines) : qout.lines[i].kind = "lease"

\* The decoding half of C19: the groups of 5 of the dhcp_leases array give the
\* mapping the parse of the dnsmasq lines gives.
C19_DecodersAgree ==
    LeasesParsed => HttpLeases(qout.lines) = qret

\* C19: for the same leases, async_get_leases on a client constructed with
\* protocol 'http' returns the mapping async_get_leases returns on an SSH
\* client: same upper-case keys, same ip and host, '*' turned into ''.
C19_HttpLeasesAsShellLeases ==
    /\ dd_asked = "http" => (dd_protocol = "http" /\ qret.kind # "raise")
    /\ C19_DecodersAgree

\* The half of C20 the code keeps: with "version" on the second line of the
\* probe's output the legacy pipeline is issued.
C20_VersionOnSecondLineSelectsWl ==
    (qprobe.kind = "lines" /\ Len(qprobe.lines) >= 2
         /\ qprobe.lines[2].kind = "version") =>
        (Len(qcmds) = 2 /\ qcmds[2] = "wl")

\* C20: the probe raises for no output of 'wl ver', and async_get_wl issues
\* the legacy 'wl assoclist' pipeline if and only if some line of that output
\* holds "version", whatever the number of lines, and the 'iw dev' pipeline
\* otherwise.
C20_ProbeSelectsPipeline ==
    qprobe.kind \in {"lines", "empty"} =>
        /\ Len(qcmds) = 2
        /\ qcmds[2] = WlCmdAnyLine(qprobe).cmd
        /\ wl_cmd = qcmds[2]

\* ----------------------------------------------------- claims on the merger

====
